---- MODULE Spec2Model ----
(***************************************************************************)
(* The kitties pallet: storage (Kitties, CountForKitties, KittiesOwned),   *)
(* the internal functions of impls.rs (gen_dna, mint, do_transfer,         *)
(* do_set_price, do_buy_kitty) and the four dispatchables of lib.rs        *)
(* (create_kitty, transfer, set_price, buy_kitty).                         *)
(*                                                                         *)
(* Every internal function is an operator from a storage record to an      *)
(* outcome [res, st]: the DispatchResult and the storage as the function   *)
(* leaves it, writes made before a late error included.  A dispatchable is *)
(* its body run inside the storage layer that #[pallet::call] puts around  *)
(* it, which discards the writes of a body that returns Err.               *)
(***************************************************************************)
EXTENDS Integers, Sequences, FiniteSets, TLC

\* ------------------------------------------------------------- constants

\* BoundedVec<[u8; 32], ConstU32<100>>: capacity of one KittiesOwned entry.
MaxOwned == 100

\* CountForKitties is a u32.  TLC's integers are 32-bit signed, so the
\* counter is narrowed to 8 bits; checked_add fails above this value.
u32_MAX == 255

\* Successful create_kitty calls explored on top of the initial registry.
MaxMint == 2

\* Listing prices range over 1..MaxPrice.
MaxPrice == 1

\* The balance Preservation::Preserve keeps on the payer's account.
MinimumBalance == 1

\* Free balance of every account in the initial state: one unit to spend.
InitBalance == MinimumBalance + 1

Accounts == {"alice", "bob", "carol"}

\* The account written where an operation has no such argument.
NoAccount == "nobody"

\* OriginFor<T>: a signed origin per account, and one unsigned origin.
SignedOrigin(who) == [signed |-> TRUE, who |-> who]

UnsignedOrigin == [signed |-> FALSE, who |-> NoAccount]

Origins == {SignedOrigin(a) : a \in Accounts} \cup {UnsignedOrigin}

\* Option<BalanceOf<T>>
None == [some |-> FALSE, v |-> 0]

Some(v) == [some |-> TRUE, v |-> v]

\* Listing prices, and the maxima a buyer offers: below, at and above them.
Prices == 1..MaxPrice

OptionPrices == {None} \cup {Some(p) : p \in Prices}

Offers == 0..(MaxPrice + 1)

\* (parent_hash, block_number, extrinsic_index) read by gen_dna during the
\* calls: every creation happens in the same block, at the same index.
Context == <<0, 1, 0>>

\* ------------------------------------------------------------- variables

VARIABLES
    Kitties,          \* StorageMap [u8; 32] -> Kitty, a partial function
    CountForKitties,  \* StorageValue u32
    KittiesOwned,     \* StorageMap AccountId -> BoundedVec (ValueQuery)
    balances,         \* T::NativeBalance: free balance of every account
    genesis           \* CountForKitties of the initial state

vars == <<Kitties, CountForKitties, KittiesOwned, balances, genesis>>

\* The storage a call starts from, as one record: the argument of every
\* operator below.  events holds what the call deposits; the runtime's
\* event log is read by observers only, so no call's outcome depends on it
\* and the machine does not carry it from one call to the next.
Storage ==
    [Kitties |-> Kitties, CountForKitties |-> CountForKitties,
     KittiesOwned |-> KittiesOwned, balances |-> balances, events |-> <<>>]

\* ------------------------------------------------------------- outcomes

Ok(s) == [res |-> "Ok", st |-> s]

Err(s, e) == [res |-> e, st |-> s]

\* Self::deposit_event
deposit_event(s, e) == [s EXCEPT !.events = Append(@, e)]

Event(name, who, to, kitty_id, price) ==
    [name |-> name, who |-> who, to |-> to, kitty_id |-> kitty_id, price |-> price]

\* ------------------------------------------------------------- helpers

\* BlakeTwo256::hash_of, taken to be injective on the payloads that occur:
\* the digest is the payload's mixed-radix code.
BlakeTwo256_hash_of(payload) ==
    ((payload[1] * 2 + payload[2]) * 2 + payload[3]) * (u32_MAX + 1) + payload[4]

\* checked_add with the addend dropped.
checked_add_nothing(a, b) == IF a + b > u32_MAX THEN None ELSE Some(a)

\* checked_add that wraps around.
checked_add_wrapping(a, b) == Some((a + b) % (u32_MAX + 1))

\* u32::checked_add
checked_add(a, b) == IF a + b > u32_MAX THEN None ELSE Some(a + b)

\* Iterator::position(|&id| id == kitty_id): the first index, 0 if none.
position(v, kitty_id) ==
    IF \E i \in 1..Len(v) : v[i] = kitty_id
    THEN CHOOSE i \in 1..Len(v) : v[i] = kitty_id /\ \A j \in 1..(i - 1) : v[j] # kitty_id
    ELSE 0

\* swap_remove as a plain pop: the last element goes, whatever ind is.
swap_remove_pop(v, ind) == SubSeq(v, 1, Len(v) - 1)

\* Vec::swap_remove(ind): the last element takes the place of the removed one.
swap_remove(v, ind) ==
    IF ind = Len(v) THEN SubSeq(v, 1, Len(v) - 1)
    ELSE SubSeq([v EXCEPT ![ind] = v[Len(v)]], 1, Len(v) - 1)

\* try_push with the bound off by one.
try_push_one_more(v, x) ==
    IF Len(v) > MaxOwned THEN [ok |-> FALSE, v |-> v]
    ELSE [ok |-> TRUE, v |-> Append(v, x)]

\* BoundedVec::try_push, and StorageMap::try_append on a BoundedVec value:
\* an error, and nothing pushed, when the vector is at its bound.
try_push(v, x) ==
    IF Len(v) >= MaxOwned THEN [ok |-> FALSE, v |-> v]
    ELSE [ok |-> TRUE, v |-> Append(v, x)]

\* StorageMap::insert on Kitties
\* An insert that starts the map afresh.
Kitties_insert_afresh(K, dna, kitty) == dna :> kitty

Kitties_insert(K, dna, kitty) ==
    IF dna \in DOMAIN K THEN [K EXCEPT ![dna] = kitty] ELSE K @@ (dna :> kitty)

\* ensure_signed(origin)
ensure_signed(origin) ==
    IF origin.signed THEN [res |-> "Ok", who |-> origin.who]
    ELSE [res |-> "BadOrigin", who |-> NoAccount]

\* T::NativeBalance::transfer(source, dest, amount, Preservation::Preserve):
\* fails when the payer would be left below the minimum balance, moves
\* nothing when payer and payee are the same account.
NativeBalance_transfer(s, source, dest, amount) ==
    IF s.balances[source] - amount < MinimumBalance THEN Err(s, "FundsUnavailable")
    ELSE IF source = dest THEN Ok(s)
    ELSE Ok([s EXCEPT !.balances[source] = @ - amount, !.balances[dest] = @ + amount])

\* ------------------------------------------------------------- impls.rs

\* gen_dna with CountForKitties left out of the payload.
gen_dna_no_count(s, ctx) ==
    BlakeTwo256_hash_of(<<ctx[1], ctx[2], ctx[3], 0>>)

gen_dna(s, ctx) ==
    BlakeTwo256_hash_of(<<ctx[1], ctx[2], ctx[3], s.CountForKitties>>)

\* mint with the registry and counter written before try_append is tried.
mint_insert_first(s, owner, dna) ==
    LET kitty == [dna |-> dna, owner |-> owner, price |-> None]
        new_count == checked_add(s.CountForKitties, 1)
        appended == try_push(s.KittiesOwned[owner], dna)
        stored == [s EXCEPT !.Kitties = Kitties_insert(@, dna, kitty),
                            !.CountForKitties = new_count.v]
    IN  IF dna \in DOMAIN s.Kitties THEN Err(s, "DuplicateKitty")
        ELSE IF ~new_count.some THEN Err(s, "TooManyKitties")
        ELSE IF ~appended.ok THEN Err(stored, "TooManyOwned")
        ELSE Ok(deposit_event(
                 [stored EXCEPT !.KittiesOwned[owner] = appended.v],
                 Event("Created", owner, NoAccount, 0, None)))

\* mint without the check for a duplicate.
mint_overwrites(s, owner, dna) ==
    LET kitty == [dna |-> dna, owner |-> owner, price |-> None]
        new_count == checked_add(s.CountForKitties, 1)
        appended == try_push(s.KittiesOwned[owner], dna)
    IN  IF ~new_count.some THEN Err(s, "TooManyKitties")
        ELSE IF ~appended.ok THEN Err(s, "TooManyOwned")
        ELSE Ok(deposit_event(
                 [s EXCEPT !.KittiesOwned[owner] = appended.v,
                           !.Kitties = Kitties_insert(@, dna, kitty),
                           !.CountForKitties = new_count.v],
                 Event("Created", owner, NoAccount, 0, None)))

mint(s, owner, dna) ==
    LET kitty == [dna |-> dna, owner |-> owner, price |-> None]
        new_count == checked_add(s.CountForKitties, 1)
        appended == try_push(s.KittiesOwned[owner], dna)
    IN  IF dna \in DOMAIN s.Kitties THEN Err(s, "DuplicateKitty")
        ELSE IF ~new_count.some THEN Err(s, "TooManyKitties")
        ELSE IF ~appended.ok THEN Err(s, "TooManyOwned")
        ELSE Ok(deposit_event(
                 [s EXCEPT !.KittiesOwned[owner] = appended.v,
                           !.Kitties = Kitties_insert(@, dna, kitty),
                           !.CountForKitties = new_count.v],
                 Event("Created", owner, NoAccount, 0, None)))

\* do_transfer that leaves the listing on the record.
do_transfer_keeps_price(s, from, to, kitty_id) ==
    IF from = to THEN Err(s, "TransferToSelf")
    ELSE IF kitty_id \notin DOMAIN s.Kitties THEN Err(s, "NoKitty")
    ELSE IF s.Kitties[kitty_id].owner # from THEN Err(s, "NotOwner")
    ELSE
      LET kitty == [s.Kitties[kitty_id] EXCEPT !.owner = to]
          to_owned == try_push(s.KittiesOwned[to], kitty_id)
          ind == position(s.KittiesOwned[from], kitty_id)
          from_owned == swap_remove(s.KittiesOwned[from], ind)
      IN  IF ~to_owned.ok THEN Err(s, "TooManyOwned")
          ELSE IF ind = 0 THEN Err(s, "NoKitty")
          ELSE Ok(deposit_event(
                   [s EXCEPT !.Kitties = Kitties_insert(@, kitty_id, kitty),
                             !.KittiesOwned[to] = to_owned.v,
                             !.KittiesOwned[from] = from_owned],
                   Event("Transferred", from, to, kitty_id, None)))

\* do_transfer with the self-transfer check made after the registry checks.
do_transfer_late_self_check(s, from, to, kitty_id) ==
    IF kitty_id \notin DOMAIN s.Kitties THEN Err(s, "NoKitty")
    ELSE IF s.Kitties[kitty_id].owner # from THEN Err(s, "NotOwner")
    ELSE IF from = to THEN Err(s, "TransferToSelf")
    ELSE
      LET kitty == [s.Kitties[kitty_id] EXCEPT !.owner = to, !.price = None]
          to_owned == try_push(s.KittiesOwned[to], kitty_id)
          ind == position(s.KittiesOwned[from], kitty_id)
          from_owned == swap_remove(s.KittiesOwned[from], ind)
      IN  IF ~to_owned.ok THEN Err(s, "TooManyOwned")
          ELSE IF ind = 0 THEN Err(s, "NoKitty")
          ELSE Ok(deposit_event(
                   [s EXCEPT !.Kitties = Kitties_insert(@, kitty_id, kitty),
                             !.KittiesOwned[to] = to_owned.v,
                             !.KittiesOwned[from] = from_owned],
                   Event("Transferred", from, to, kitty_id, None)))

do_transfer(s, from, to, kitty_id) ==
    IF from = to THEN Err(s, "TransferToSelf")
    ELSE IF kitty_id \notin DOMAIN s.Kitties THEN Err(s, "NoKitty")
    ELSE IF s.Kitties[kitty_id].owner # from THEN Err(s, "NotOwner")
    ELSE
      LET kitty == [s.Kitties[kitty_id] EXCEPT !.owner = to, !.price = None]
          to_owned == try_push(s.KittiesOwned[to], kitty_id)
          ind == position(s.KittiesOwned[from], kitty_id)
          from_owned == swap_remove(s.KittiesOwned[from], ind)
      IN  IF ~to_owned.ok THEN Err(s, "TooManyOwned")
          ELSE IF ind = 0 THEN Err(s, "NoKitty")
          ELSE Ok(deposit_event(
                   [s EXCEPT !.Kitties = Kitties_insert(@, kitty_id, kitty),
                             !.KittiesOwned[to] = to_owned.v,
                             !.KittiesOwned[from] = from_owned],
                   Event("Transferred", from, to, kitty_id, None)))

\* do_set_price that takes the price from any caller.
do_set_price_any_caller(s, caller, kitty_id, new_price) ==
    IF kitty_id \notin DOMAIN s.Kitties THEN Err(s, "NoKitty")
    ELSE Ok(deposit_event(
             [s EXCEPT !.Kitties[kitty_id].price = new_price],
             Event("PriceSet", caller, NoAccount, kitty_id, new_price)))

\* do_set_price that writes a price but never takes one away.
do_set_price_keeps_listing(s, caller, kitty_id, new_price) ==
    IF kitty_id \notin DOMAIN s.Kitties THEN Err(s, "NoKitty")
    ELSE IF s.Kitties[kitty_id].owner # caller THEN Err(s, "NotOwner")
    ELSE Ok(deposit_event(
             IF new_price.some
             THEN [s EXCEPT !.Kitties[kitty_id].price = new_price]
             ELSE s,
             Event("PriceSet", caller, NoAccount, kitty_id, new_price)))

do_set_price(s, caller, kitty_id, new_price) ==
    IF kitty_id \notin DOMAIN s.Kitties THEN Err(s, "NoKitty")
    ELSE IF s.Kitties[kitty_id].owner # caller THEN Err(s, "NotOwner")
    ELSE Ok(deposit_event(
             [s EXCEPT !.Kitties[kitty_id].price = new_price],
             Event("PriceSet", caller, NoAccount, kitty_id, new_price)))

\* do_buy_kitty that charges the offered maximum.
do_buy_kitty_pays_offer(s, buyer, kitty_id, price) ==
    IF kitty_id \notin DOMAIN s.Kitties THEN Err(s, "NoKitty")
    ELSE
      LET kitty == s.Kitties[kitty_id]
          real_price == kitty.price.v
          paid == NativeBalance_transfer(s, buyer, kitty.owner, price)
          moved == do_transfer(paid.st, kitty.owner, buyer, kitty_id)
      IN  IF ~kitty.price.some THEN Err(s, "NotForSale")
          ELSE IF ~(price >= real_price) THEN Err(s, "MaxPriceTooLow")
          ELSE IF paid.res # "Ok" THEN paid
          ELSE IF moved.res # "Ok" THEN moved
          ELSE Ok(deposit_event(moved.st,
                   Event("Sold", buyer, NoAccount, kitty_id, Some(real_price))))

\* do_buy_kitty that wants the offer above the listed price.
do_buy_kitty_strict(s, buyer, kitty_id, price) ==
    IF kitty_id \notin DOMAIN s.Kitties THEN Err(s, "NoKitty")
    ELSE
      LET kitty == s.Kitties[kitty_id]
          real_price == kitty.price.v
          paid == NativeBalance_transfer(s, buyer, kitty.owner, real_price)
          moved == do_transfer(paid.st, kitty.owner, buyer, kitty_id)
      IN  IF ~kitty.price.some THEN Err(s, "NotForSale")
          ELSE IF ~(price > real_price) THEN Err(s, "MaxPriceTooLow")
          ELSE IF paid.res # "Ok" THEN paid
          ELSE IF moved.res # "Ok" THEN moved
          ELSE Ok(deposit_event(moved.st,
                   Event("Sold", buyer, NoAccount, kitty_id, Some(real_price))))

\* do_buy_kitty that takes an absent price for a price of zero.
do_buy_kitty_unlisted_free(s, buyer, kitty_id, price) ==
    IF kitty_id \notin DOMAIN s.Kitties THEN Err(s, "NoKitty")
    ELSE
      LET kitty == s.Kitties[kitty_id]
          real_price == kitty.price.v
          paid == NativeBalance_transfer(s, buyer, kitty.owner, real_price)
          moved == do_transfer(paid.st, kitty.owner, buyer, kitty_id)
      IN  IF ~(price >= real_price) THEN Err(s, "MaxPriceTooLow")
          ELSE IF paid.res # "Ok" THEN paid
          ELSE IF moved.res # "Ok" THEN moved
          ELSE Ok(deposit_event(moved.st,
                   Event("Sold", buyer, NoAccount, kitty_id, Some(real_price))))

\* do_buy_kitty that deposits no event of its own.
do_buy_kitty_silent(s, buyer, kitty_id, price) ==
    IF kitty_id \notin DOMAIN s.Kitties THEN Err(s, "NoKitty")
    ELSE
      LET kitty == s.Kitties[kitty_id]
          real_price == kitty.price.v
          paid == NativeBalance_transfer(s, buyer, kitty.owner, real_price)
          moved == do_transfer(paid.st, kitty.owner, buyer, kitty_id)
      IN  IF ~kitty.price.some THEN Err(s, "NotForSale")
          ELSE IF ~(price >= real_price) THEN Err(s, "MaxPriceTooLow")
          ELSE IF paid.res # "Ok" THEN paid
          ELSE IF moved.res # "Ok" THEN moved
          ELSE Ok(moved.st)

do_buy_kitty(s, buyer, kitty_id, price) ==
    IF kitty_id \notin DOMAIN s.Kitties THEN Err(s, "NoKitty")
    ELSE
      LET kitty == s.Kitties[kitty_id]
          real_price == kitty.price.v
          paid == NativeBalance_transfer(s, buyer, kitty.owner, real_price)
          moved == do_transfer(paid.st, kitty.owner, buyer, kitty_id)
      IN  IF ~kitty.price.some THEN Err(s, "NotForSale")
          ELSE IF ~(price >= real_price) THEN Err(s, "MaxPriceTooLow")
          ELSE IF paid.res # "Ok" THEN paid
          ELSE IF moved.res # "Ok" THEN moved
          ELSE Ok(deposit_event(moved.st,
                   Event("Sold", buyer, NoAccount, kitty_id, Some(real_price))))

\* ------------------------------------------------------------- lib.rs

\* A dispatchable without the storage layer: the body's writes stay.
without_storage_layer(s, out) == out

\* #[pallet::call] runs the body of every dispatchable in a storage layer:
\* the writes of a body that returns Err are discarded.
with_storage_layer(s, out) ==
    IF out.res = "Ok" THEN out ELSE Err(s, out.res)

create_kitty_body(s, origin, ctx) ==
    LET who == ensure_signed(origin)
    IN  IF who.res # "Ok" THEN Err(s, who.res)
        ELSE mint(s, who.who, gen_dna(s, ctx))

create_kitty(s, origin, ctx) ==
    with_storage_layer(s, create_kitty_body(s, origin, ctx))

transfer_body(s, origin, to, kitty_id) ==
    LET who == ensure_signed(origin)
    IN  IF who.res # "Ok" THEN Err(s, who.res)
        ELSE do_transfer(s, who.who, to, kitty_id)

transfer(s, origin, to, kitty_id) ==
    with_storage_layer(s, transfer_body(s, origin, to, kitty_id))

set_price_body(s, origin, kitty_id, new_price) ==
    LET who == ensure_signed(origin)
    IN  IF who.res # "Ok" THEN Err(s, who.res)
        ELSE do_set_price(s, who.who, kitty_id, new_price)

set_price(s, origin, kitty_id, new_price) ==
    with_storage_layer(s, set_price_body(s, origin, kitty_id, new_price))

buy_kitty_body(s, origin, kitty_id, max_price) ==
    LET who == ensure_signed(origin)
    IN  IF who.res # "Ok" THEN Err(s, who.res)
        ELSE do_buy_kitty(s, who.who, kitty_id, max_price)

buy_kitty(s, origin, kitty_id, max_price) ==
    with_storage_layer(s, buy_kitty_body(s, origin, kitty_id, max_price))

\* ------------------------------------------------------------- the machine

\* The registry of an initial state: n kitties minted by owner, one after
\* the other, in an earlier block.
GenesisDna(i) == BlakeTwo256_hash_of(<<0, 0, 0, i>>)

GenesisKitties(owner, n) ==
    [d \in {GenesisDna(i) : i \in 0..(n - 1)} |->
        [dna |-> d, owner |-> owner, price |-> None]]

GenesisOwned(owner, n) ==
    [a \in Accounts |-> IF a = owner THEN [i \in 1..n |-> GenesisDna(i - 1)] ELSE <<>>]

Genesis(n) ==
    /\ Kitties = GenesisKitties("alice", n)
    /\ CountForKitties = n
    /\ KittiesOwned = GenesisOwned("alice", n)
    /\ balances = [a \in Accounts |-> InitBalance]
    /\ genesis = n

\* The registry of an initial state where the three accounts have minted n
\* kitties in turn: the i-th creation is by the account number i % 3.
AccountOrder == <<"alice", "bob", "carol">>

SpreadOrdinal(a) == CHOOSE k \in 0..2 : AccountOrder[k + 1] = a

SpreadKitties(n) ==
    [d \in {GenesisDna(i) : i \in 0..(n - 1)} |->
        [dna |-> d, owner |-> AccountOrder[(d % 3) + 1], price |-> None]]

SpreadOwned(n) ==
    [a \in Accounts |->
        [k \in 1..((n + 2 - SpreadOrdinal(a)) \div 3) |->
            GenesisDna(3 * (k - 1) + SpreadOrdinal(a))]]

GenesisSpread(n) ==
    /\ Kitties = SpreadKitties(n)
    /\ CountForKitties = n
    /\ KittiesOwned = SpreadOwned(n)
    /\ balances = [a \in Accounts |-> InitBalance]
    /\ genesis = n

\* The storage after u32_MAX - 2 creations: CountForKitties two short of
\* the largest value of its type.
InitMax == GenesisSpread(u32_MAX - 2)

\* The storage after construction: nothing minted.
Init == Genesis(0)

\* The storage after alice has created MaxOwned - 1 kitties: one short of
\* a full KittiesOwned entry.
InitFull == Genesis(MaxOwned - 1)

\* The fingerprints calls are made on: those minted since the initial
\* state, and the one gen_dna would produce next (absent from the registry).
KittyIds ==
    {d \in DOMAIN Kitties : d % (u32_MAX + 1) >= genesis}
        \cup {gen_dna(Storage, Context)}

\* The arguments of the calls.  An unsigned origin is turned away before
\* any other argument is read, so it comes with one choice of the others.
TransferArgs ==
    {<<SignedOrigin(a), to, id>> : a \in Accounts, to \in Accounts, id \in KittyIds}
        \cup {<<UnsignedOrigin, "alice", gen_dna(Storage, Context)>>}

SetPriceArgs ==
    {<<SignedOrigin(a), id, p>> : a \in Accounts, id \in KittyIds, p \in OptionPrices}
        \cup {<<UnsignedOrigin, gen_dna(Storage, Context), None>>}

BuyArgs ==
    {<<SignedOrigin(a), id, p>> : a \in Accounts, id \in KittyIds, p \in Offers}
        \cup {<<UnsignedOrigin, gen_dna(Storage, Context), 0>>}

\* The storage after a call with outcome out.
Commit(out) ==
    /\ Kitties' = out.st.Kitties
    /\ CountForKitties' = out.st.CountForKitties
    /\ KittiesOwned' = out.st.KittiesOwned
    /\ balances' = out.st.balances
    /\ genesis' = genesis

\* At most MaxMint successful creations; one that fails is always possible.
CreateKitty ==
    \E origin \in Origins :
        \E out \in {create_kitty(Storage, origin, Context)} :
            /\ out.res = "Ok" => CountForKitties - genesis < MaxMint
            /\ Commit(out)

Transfer ==
    \E a \in TransferArgs :
        \E out \in {transfer(Storage, a[1], a[2], a[3])} : Commit(out)

SetPrice ==
    \E a \in SetPriceArgs :
        \E out \in {set_price(Storage, a[1], a[2], a[3])} : Commit(out)

BuyKitty ==
    \E a \in BuyArgs :
        \E out \in {buy_kitty(Storage, a[1], a[2], a[3])} : Commit(out)

Next == CreateKitty \/ Transfer \/ SetPrice \/ BuyKitty

Spec == Init /\ [][Next]_vars

SpecFull == InitFull /\ [][Next]_vars

\* ------------------------------------------------------------- properties

\* The fingerprints held in an owner's entry, and how often d is in v.
Held(s, a) == {s.KittiesOwned[a][i] : i \in 1..Len(s.KittiesOwned[a])}

Occurrences(v, d) == Cardinality({i \in 1..Len(v) : v[i] = d})

\* The registry, the counter and the index of a storage record.
Ledger(s) == <<s.Kitties, s.CountForKitties, s.KittiesOwned>>

\* C1: every fingerprint of the registry is in the KittiesOwned entry of
\* its record's owner, once, and in no other entry; and every fingerprint
\* of an entry is in the registry.
C1_IndexMatchesRegistry ==
    /\ \A d \in DOMAIN Kitties : \A a \in Accounts :
           Occurrences(KittiesOwned[a], d) = IF a = Kitties[d].owner THEN 1 ELSE 0
    /\ \A a \in Accounts : Held(Storage, a) \subseteq DOMAIN Kitties

\* An owner holds two kitties in the reverse of the order they were minted
\* in, and has sold or bought one: transfers and a sale have happened.
C1_Witness ==
    \E a \in Accounts :
        /\ Len(KittiesOwned[a]) = 2
        /\ KittiesOwned[a][1] > KittiesOwned[a][2]
        /\ balances[a] # InitBalance

\* C2: CountForKitties is the number of records in the registry, and the
\* records carry that many different fingerprints.
C2_CountMatchesRegistry ==
    /\ CountForKitties = Cardinality(DOMAIN Kitties)
    /\ CountForKitties = Cardinality({Kitties[d].dna : d \in DOMAIN Kitties})
    /\ \A d \in DOMAIN Kitties : Kitties[d].dna = d

\* MaxMint kitties minted from the empty registry, by different owners.
C2_Witness ==
    /\ genesis = 0
    /\ CountForKitties = MaxMint
    /\ \E d, e \in DOMAIN Kitties : Kitties[d].owner # Kitties[e].owner

\* The balances after amount has gone from payer to payee.
Paid(bal, payer, payee, amount) ==
    [bal EXCEPT ![payer] = @ - amount, ![payee] = @ + amount]

\* The payer can pay amount and keep the minimum balance.
CanPay(payer, amount) == balances[payer] - amount >= MinimumBalance

\* C3: a buy_kitty call either moves the listed price from the buyer to the
\* previous owner and makes the buyer the owner, or changes no balance, no
\* record and no KittiesOwned entry.
C3_BuyAtomic ==
    \A a \in BuyArgs :
        LET out == buy_kitty(Storage, a[1], a[2], a[3])
            buyer == a[1].who
            kitty == Kitties[a[2]]
        IN  IF out.res = "Ok"
            THEN /\ out.st.balances = Paid(balances, buyer, kitty.owner, kitty.price.v)
                 /\ out.st.Kitties[a[2]].owner = buyer
                 /\ kitty.owner # buyer
            ELSE /\ out.st.balances = balances
                 /\ Ledger(out.st) = Ledger(Storage)

\* A buy whose body has moved the funds and then fails in do_transfer,
\* with the buyer's entry full; the call leaves the storage as it was.
C3_Witness ==
    \E a \in BuyArgs :
        LET body == buy_kitty_body(Storage, a[1], a[2], a[3])
        IN  /\ body.res = "TooManyOwned"
            /\ body.st.balances # balances
            /\ buy_kitty(Storage, a[1], a[2], a[3]) = Err(Storage, "TooManyOwned")

\* C4: mint, do_transfer and do_set_price that return an error return the
\* storage they were given: registry, counter, index and balances.
C4_NoPartialWrite ==
    /\ \A owner \in Accounts, dna \in KittyIds :
           LET out == mint(Storage, owner, dna)
           IN  out.res # "Ok" => out.st = Storage
    /\ \A from \in Accounts, to \in Accounts, id \in KittyIds :
           LET out == do_transfer(Storage, from, to, id)
           IN  out.res # "Ok" => out.st = Storage
    /\ \A caller \in Accounts, id \in KittyIds, p \in OptionPrices :
           LET out == do_set_price(Storage, caller, id, p)
           IN  out.res # "Ok" => out.st = Storage

\* mint fails at its last check, the append to a full entry, and
\* do_transfer at its capacity check, after the record has been updated in
\* memory; set_price fails for a caller who is not the owner.
C4_Witness ==
    /\ \E owner \in Accounts :
           mint(Storage, owner, gen_dna(Storage, Context)).res = "TooManyOwned"
    /\ \E from \in Accounts, to \in Accounts, id \in KittyIds :
           do_transfer(Storage, from, to, id).res = "TooManyOwned"
    /\ \E caller \in Accounts, id \in KittyIds :
           do_set_price(Storage, caller, id, None).res = "NotOwner"

\* C5: no KittiesOwned entry holds more than MaxOwned fingerprints.  For an
\* owner whose entry holds MaxOwned: create_kitty by that owner fails with
\* TooManyOwned; a transfer to that owner by the owner of the kitty fails
\* with TooManyOwned; a buy by that owner of a listed kitty of another
\* owner, offered and able to pay the price, fails with TooManyOwned; and
\* every create by, transfer to or buy by that owner leaves the storage as
\* it was, the entry at MaxOwned.
C5_EntryBounded ==
    /\ \A a \in Accounts : Len(KittiesOwned[a]) <= MaxOwned
    /\ \A full \in {a \in Accounts : Len(KittiesOwned[a]) = MaxOwned} :
        /\ create_kitty(Storage, SignedOrigin(full), Context) = Err(Storage, "TooManyOwned")
        /\ \A from \in Accounts, id \in KittyIds :
               LET out == transfer(Storage, SignedOrigin(from), full, id)
               IN  /\ out.res # "Ok" /\ out.st = Storage
                   /\ (id \in DOMAIN Kitties /\ Kitties[id].owner = from /\ from # full)
                          => out.res = "TooManyOwned"
        /\ \A id \in KittyIds, p \in Offers :
               LET out == buy_kitty(Storage, SignedOrigin(full), id, p)
               IN  /\ out.res # "Ok" /\ out.st = Storage
                   /\ (/\ id \in DOMAIN Kitties /\ Kitties[id].price.some
                       /\ p >= Kitties[id].price.v /\ CanPay(full, Kitties[id].price.v)
                       /\ Kitties[id].owner # full)
                          => out.res = "TooManyOwned"

\* An owner's entry is full, another owner holds a listed kitty the first
\* can pay for: the create, the transfer and the buy all meet the bound.
C5_Witness ==
    \E full \in Accounts, id \in DOMAIN Kitties :
        /\ Len(KittiesOwned[full]) = MaxOwned
        /\ Kitties[id].owner # full
        /\ Kitties[id].price.some
        /\ CanPay(full, Kitties[id].price.v)
        /\ id \in KittyIds

\* The kitty_id record as it is after a change of owner.
Moved(kitty_id, to) == [dna |-> kitty_id, owner |-> to, price |-> None]

\* The index after kitty_id has gone from one owner to another: appended
\* to the new owner's entry, taken out of the old owner's whose other
\* fingerprints stay (in any order), every other entry as it was.
IndexMoved(s, from, to, kitty_id) ==
    /\ s.KittiesOwned[to] = Append(KittiesOwned[to], kitty_id)
    /\ Len(s.KittiesOwned[from]) = Len(KittiesOwned[from]) - 1
    /\ Held(s, from) = Held(Storage, from) \ {kitty_id}
    /\ \A a \in Accounts \ {from, to} : s.KittiesOwned[a] = KittiesOwned[a]

\* C6: a successful buy_kitty moves the listed price from the buyer to the
\* previous owner, makes the buyer the owner, clears the price, moves the
\* fingerprint from the seller's entry to the buyer's, and leaves the
\* counter, the other records, entries and balances as they were.
C6_BuyEffect ==
    \A a \in BuyArgs :
        LET out == buy_kitty(Storage, a[1], a[2], a[3])
            buyer == a[1].who
            seller == Kitties[a[2]].owner
            listed == Kitties[a[2]].price.v
        IN  out.res = "Ok" =>
              /\ Kitties[a[2]].price.some /\ seller # buyer
              /\ out.st.balances = Paid(balances, buyer, seller, listed)
              /\ out.st.Kitties = [Kitties EXCEPT ![a[2]] = Moved(a[2], buyer)]
              /\ out.st.CountForKitties = CountForKitties
              /\ IndexMoved(out.st, seller, buyer, a[2])

\* A buy succeeds with an offer above the listed price, from a seller who
\* holds another kitty as well.
C6_Witness ==
    \E a \in BuyArgs :
        /\ buy_kitty(Storage, a[1], a[2], a[3]).res = "Ok"
        /\ a[3] > Kitties[a[2]].price.v
        /\ Len(KittiesOwned[Kitties[a[2]].owner]) > 1

\* The buyer is not the owner, has room for one more kitty and can pay.
CanTake(buyer, kitty_id) ==
    /\ Kitties[kitty_id].owner # buyer
    /\ Len(KittiesOwned[buyer]) < MaxOwned
    /\ CanPay(buyer, Kitties[kitty_id].price.v)

\* C7: buy_kitty of a kitty in the registry fails with NotForSale when its
\* price is absent and with MaxPriceTooLow when the offer is below the
\* price; an offer equal to the price is not too low, and the buy then
\* succeeds and moves exactly the price when the buyer can take the kitty.
C7_BuyPriceChecks ==
    \A buyer \in Accounts, id \in DOMAIN Kitties \cap KittyIds, offer \in Offers :
        LET out == buy_kitty(Storage, SignedOrigin(buyer), id, offer)
            price == Kitties[id].price
        IN  /\ ~price.some => out = Err(Storage, "NotForSale")
            /\ (price.some /\ offer < price.v) => out = Err(Storage, "MaxPriceTooLow")
            /\ (price.some /\ offer = price.v) =>
                  /\ out.res # "MaxPriceTooLow"
                  /\ CanTake(buyer, id) =>
                        /\ out.res = "Ok"
                        /\ out.st.balances = Paid(balances, buyer, Kitties[id].owner, price.v)

\* One kitty is not for sale, another is listed; for the listed one there
\* is an offer below the price, and a buyer who can take it at the price.
C7_Witness ==
    \E id, other \in DOMAIN Kitties \cap KittyIds, buyer \in Accounts :
        /\ ~Kitties[other].price.some
        /\ Kitties[id].price.some
        /\ \E offer \in Offers : offer < Kitties[id].price.v
        /\ Kitties[id].price.v \in Offers
        /\ CanTake(buyer, id)
        /\ buy_kitty(Storage, SignedOrigin(buyer), id, Kitties[id].price.v).res = "Ok"

\* The result of buy_kitty by a signed buyer, from the state of the kitty
\* and of the buyer.
BuyResult(buyer, kitty_id, offer) ==
    IF kitty_id \notin DOMAIN Kitties THEN "NoKitty"
    ELSE IF ~Kitties[kitty_id].price.some THEN "NotForSale"
    ELSE IF offer < Kitties[kitty_id].price.v THEN "MaxPriceTooLow"
    ELSE IF ~CanPay(buyer, Kitties[kitty_id].price.v) THEN "FundsUnavailable"
    ELSE IF Kitties[kitty_id].owner = buyer THEN "TransferToSelf"
    ELSE IF Len(KittiesOwned[buyer]) >= MaxOwned THEN "TooManyOwned"
    ELSE "Ok"

\* C8 as stated: a buy of a listed kitty of the registry, with an offer at
\* or above the price and a buyer who can pay, succeeds.
C8_OnlyListedFailures ==
    \A buyer \in Accounts, id \in DOMAIN Kitties \cap KittyIds, offer \in Offers :
        (/\ Kitties[id].price.some /\ offer >= Kitties[id].price.v
         /\ CanPay(buyer, Kitties[id].price.v))
            => buy_kitty(Storage, SignedOrigin(buyer), id, offer).res = "Ok"

\* C8, amended: buy_kitty by a signed buyer fails with NoKitty, NotForSale,
\* MaxPriceTooLow, the fund transfer's error, TransferToSelf when the buyer
\* is the owner, or TooManyOwned when the buyer's entry is full, each in
\* this order of precedence, and succeeds in every other case.
C8_BuyOutcomes ==
    \A buyer \in Accounts, id \in KittyIds, offer \in Offers :
        buy_kitty(Storage, SignedOrigin(buyer), id, offer).res = BuyResult(buyer, id, offer)

\* In one state a buy fails because the buyer owns the kitty, another
\* because the buyer's entry is full, and a third succeeds.
C8_Witness ==
    /\ \E buyer \in Accounts, id \in KittyIds, offer \in Offers :
           buy_kitty(Storage, SignedOrigin(buyer), id, offer).res = "TransferToSelf"
    /\ \E buyer \in Accounts, id \in KittyIds, offer \in Offers :
           buy_kitty(Storage, SignedOrigin(buyer), id, offer).res = "TooManyOwned"
    /\ \E buyer \in Accounts, id \in KittyIds, offer \in Offers :
           buy_kitty(Storage, SignedOrigin(buyer), id, offer).res = "Ok"

\* C9: a successful transfer makes the destination the owner and clears
\* the price, moves the fingerprint from the source's entry to the
\* destination's, and leaves the counter, the other records, the other
\* fingerprints of both entries, every other entry and the balances as
\* they were.
C9_TransferEffect ==
    \A from \in Accounts, to \in Accounts, id \in KittyIds :
        LET out == transfer(Storage, SignedOrigin(from), to, id)
        IN  out.res = "Ok" =>
              /\ out.st.Kitties = [Kitties EXCEPT ![id] = Moved(id, to)]
              /\ out.st.CountForKitties = CountForKitties
              /\ IndexMoved(out.st, from, to, id)
              /\ out.st.balances = balances

\* A listed kitty is transferred from the front of an entry that holds
\* another kitty behind it, to an owner who already holds one.
C9_Witness ==
    \E from \in Accounts, to \in Accounts, id \in KittyIds :
        /\ transfer(Storage, SignedOrigin(from), to, id).res = "Ok"
        /\ Kitties[id].price.some
        /\ Len(KittiesOwned[from]) > 1
        /\ KittiesOwned[from][1] = id
        /\ Len(KittiesOwned[to]) > 0

\* C10: a transfer to the caller fails with TransferToSelf and leaves the
\* storage as it was, whatever the fingerprint and the caller's entry.
C10_SelfTransferFails ==
    \A a \in Accounts, id \in KittyIds \cup {GenesisDna(0)} :
        transfer(Storage, SignedOrigin(a), a, id) = Err(Storage, "TransferToSelf")

\* The caller's entry is full; the caller owns one of the fingerprints,
\* another owner owns one, and one is not in the registry.
C10_Witness ==
    \E a \in Accounts :
        /\ Len(KittiesOwned[a]) = MaxOwned
        /\ \E id \in KittyIds : id \in DOMAIN Kitties /\ Kitties[id].owner = a
        /\ \E id \in KittyIds : id \in DOMAIN Kitties /\ Kitties[id].owner # a
        /\ \E id \in KittyIds : id \notin DOMAIN Kitties
        /\ \A id \in KittyIds : transfer(Storage, SignedOrigin(a), a, id).res = "TransferToSelf"

\* The calls that fail for want of the kitty or of its ownership: transfer
\* to another account and set_price, on a fingerprint that is not in the
\* registry (NoKitty) or by a caller who is not the owner (NotOwner).
C11_OwnerChecked ==
    \A caller \in Accounts, id \in KittyIds :
        LET expected ==
                IF id \notin DOMAIN Kitties THEN "NoKitty"
                ELSE IF Kitties[id].owner # caller THEN "NotOwner"
                ELSE "Ok"
        IN  /\ expected # "Ok" =>
                /\ \A to \in Accounts \ {caller} :
                       transfer(Storage, SignedOrigin(caller), to, id) = Err(Storage, expected)
                /\ \A p \in OptionPrices :
                       set_price(Storage, SignedOrigin(caller), id, p) = Err(Storage, expected)
            /\ expected = "Ok" =>
                \A p \in OptionPrices :
                    set_price(Storage, SignedOrigin(caller), id, p).res = "Ok"

\* The step is a successful call of the owner of kitty_id: a transfer.
ByOwnersTransfer(kitty_id) ==
    \E to \in Accounts :
        LET out == transfer(Storage, SignedOrigin(Kitties[kitty_id].owner), to, kitty_id)
        IN  out.res = "Ok" /\ Kitties' = out.st.Kitties

\* The step is a successful call of the owner of kitty_id: a set_price.
ByOwnersSetPrice(kitty_id) ==
    \E p \in OptionPrices :
        LET out == set_price(Storage, SignedOrigin(Kitties[kitty_id].owner), kitty_id, p)
        IN  out.res = "Ok" /\ Kitties' = out.st.Kitties

\* The step is a successful buy of kitty_id.
ByBuy(kitty_id) ==
    \E buyer \in Accounts, offer \in Offers :
        LET out == buy_kitty(Storage, SignedOrigin(buyer), kitty_id, offer)
        IN  out.res = "Ok" /\ Kitties' = out.st.Kitties /\ balances' = out.st.balances

\* A step changes the owner of a kitty only as its owner's transfer or as
\* a buy, and its price only as its owner's set_price or transfer or as a
\* buy.
C11_OwnerChanges ==
    \A d \in DOMAIN Kitties :
        /\ Kitties'[d].owner # Kitties[d].owner => ByOwnersTransfer(d) \/ ByBuy(d)
        /\ Kitties'[d].price # Kitties[d].price =>
              ByOwnersSetPrice(d) \/ ByOwnersTransfer(d) \/ ByBuy(d)

\* C11: transfer to another account and set_price fail with NotOwner for a
\* caller who is not the owner and with NoKitty for a fingerprint that is
\* not in the registry; the owner of a kitty changes only by a transfer of
\* its owner or a buy, its price only by a set_price or a transfer of its
\* owner or a buy.
C11_OnlyOwner == []C11_OwnerChecked /\ [][C11_OwnerChanges]_vars

\* A listed kitty, an account that is not its owner, and a fingerprint
\* that is not in the registry: the calls of the account on both fail, the
\* owner's succeed.
C11_Witness ==
    \E d \in DOMAIN Kitties \cap KittyIds, b \in Accounts, c \in Accounts :
        /\ Kitties[d].price.some
        /\ Kitties[d].owner # b /\ c # b
        /\ transfer(Storage, SignedOrigin(b), c, d).res = "NotOwner"
        /\ set_price(Storage, SignedOrigin(b), d, None).res = "NotOwner"
        /\ transfer(Storage, SignedOrigin(b), c, gen_dna(Storage, Context)).res = "NoKitty"
        /\ set_price(Storage, SignedOrigin(Kitties[d].owner), d, None).res = "Ok"
        /\ transfer(Storage, SignedOrigin(Kitties[d].owner), b, d).res = "Ok"

\* The storage a dispatchable leaves to the next call: the events of the
\* call are the block's, not storage the next call reads.
After(out) == [out.st EXCEPT !.events = <<>>]

\* transfer of kitty_id from a to b, then from b back to a.
RoundTrip(a, b, kitty_id) ==
    LET there == transfer(Storage, SignedOrigin(a), b, kitty_id)
        back  == transfer(After(there), SignedOrigin(b), a, kitty_id)
    IN  [there |-> there, back |-> back]

\* C12: when the transfer of a kitty from its owner A to another account B
\* and the transfer back from B to A both succeed, the kitty is owned by A
\* with no price, the entries of A and of B hold the same sets of
\* fingerprints as before, and CountForKitties is as before.
C12_RoundTrip ==
    \A a \in Accounts, b \in Accounts, id \in KittyIds :
        LET rt == RoundTrip(a, b, id)
        IN  (a # b /\ rt.there.res = "Ok" /\ rt.back.res = "Ok") =>
                /\ rt.back.st.Kitties[id].owner = a
                /\ rt.back.st.Kitties[id].price = None
                /\ Held(rt.back.st, a) = Held(Storage, a)
                /\ Held(rt.back.st, b) = Held(Storage, b)
                /\ rt.back.st.CountForKitties = CountForKitties

\* A listed kitty at the front of its owner's entry of two goes to an
\* account that holds none and comes back: the order of the owner's entry
\* is not what it was.
C12_Witness ==
    \E a \in Accounts, b \in Accounts, id \in KittyIds :
        LET rt == RoundTrip(a, b, id)
        IN  /\ a # b
            /\ id \in DOMAIN Kitties /\ Kitties[id].price.some
            /\ Len(KittiesOwned[a]) = 2 /\ KittiesOwned[a][1] = id
            /\ rt.there.res = "Ok" /\ rt.back.res = "Ok"
            /\ rt.back.st.KittiesOwned[a] # KittiesOwned[a]

\* C13: a successful set_price(caller, kitty_id, new_price) leaves the
\* registry with the price of kitty_id equal to new_price and nothing else
\* changed (the owner of kitty_id, every other record), and leaves
\* CountForKitties, every entry of KittiesOwned and every balance as they
\* were; after a set_price to None every buy of kitty_id fails with
\* NotForSale.
C13_SetPriceEffect ==
    \A a \in SetPriceArgs :
        LET out == set_price(Storage, a[1], a[2], a[3])
        IN  out.res = "Ok" =>
                /\ out.st.Kitties = [Kitties EXCEPT ![a[2]].price = a[3]]
                /\ out.st.Kitties[a[2]].owner = Kitties[a[2]].owner
                /\ out.st.CountForKitties = CountForKitties
                /\ out.st.KittiesOwned = KittiesOwned
                /\ out.st.balances = balances
                /\ a[3] = None =>
                       \A buyer \in Accounts, offer \in Offers :
                           buy_kitty(After(out), SignedOrigin(buyer), a[2], offer)
                               = Err(After(out), "NotForSale")

\* The owner of a listed kitty, with another kitty in the registry, takes
\* the price away, and an account that could have bought it (the offer
\* covers the price, the funds cover the offer) no longer can; the owner
\* of an unlisted kitty sets a price.
C13_Witness ==
    /\ \E a \in SetPriceArgs, buyer \in Accounts :
           LET out == set_price(Storage, a[1], a[2], a[3])
           IN  /\ out.res = "Ok" /\ a[3] = None
               /\ Kitties[a[2]].price.some
               /\ Cardinality(DOMAIN Kitties) > genesis + 1
               /\ buy_kitty(Storage, SignedOrigin(buyer), a[2], MaxPrice).res = "Ok"
               /\ buy_kitty(After(out), SignedOrigin(buyer), a[2], MaxPrice).res = "NotForSale"
    /\ \E a \in SetPriceArgs :
           LET out == set_price(Storage, a[1], a[2], a[3])
           IN  /\ out.res = "Ok" /\ a[3].some
               /\ ~Kitties[a[2]].price.some
               /\ out.st.Kitties[a[2]].price = a[3]

\* The events of the calls of create_kitty, transfer and set_price: one of
\* the call's kind with the call's data when the call succeeds, none when
\* it fails.
OneEventEach ==
    /\ \A origin \in Origins :
           LET out == create_kitty(Storage, origin, Context)
           IN  out.st.events =
                   IF out.res = "Ok"
                   THEN <<Event("Created", origin.who, NoAccount, 0, None)>>
                   ELSE <<>>
    /\ \A a \in TransferArgs :
           LET out == transfer(Storage, a[1], a[2], a[3])
           IN  out.st.events =
                   IF out.res = "Ok"
                   THEN <<Event("Transferred", a[1].who, a[2], a[3], None)>>
                   ELSE <<>>
    /\ \A a \in SetPriceArgs :
           LET out == set_price(Storage, a[1], a[2], a[3])
           IN  out.st.events =
                   IF out.res = "Ok"
                   THEN <<Event("PriceSet", a[1].who, NoAccount, a[2], a[3])>>
                   ELSE <<>>

\* The statement that every successful call deposits exactly one event,
\* Sold for buy_kitty, and every failing call none.
C14_OneEventPerCall ==
    /\ OneEventEach
    /\ \A a \in BuyArgs :
           LET out == buy_kitty(Storage, a[1], a[2], a[3])
           IN  /\ out.res = "Ok" =>
                   /\ Len(out.st.events) = 1
                   /\ out.st.events[1].name = "Sold"
               /\ out.res # "Ok" => out.st.events = <<>>

\* C14: a successful create_kitty, transfer or set_price deposits exactly
\* one event (Created, Transferred, PriceSet); a successful buy_kitty
\* deposits two, Transferred from the seller to the buyer and then Sold
\* with the buyer and the listed price; a failing call deposits none.
C14_EventsPerCall ==
    /\ OneEventEach
    /\ \A a \in BuyArgs :
           LET out == buy_kitty(Storage, a[1], a[2], a[3])
           IN  out.st.events =
                   IF out.res = "Ok"
                   THEN <<Event("Transferred", Kitties[a[2]].owner, a[1].who, a[2], None),
                          Event("Sold", a[1].who, NoAccount, a[2], Kitties[a[2]].price)>>
                   ELSE <<>>

\* A state where a call of each of the four kinds succeeds and one of each
\* kind fails, the buy with an offer above the listed price.
C14_Witness ==
    /\ \E origin \in Origins : create_kitty(Storage, origin, Context).res = "Ok"
    /\ \E origin \in Origins : create_kitty(Storage, origin, Context).res # "Ok"
    /\ \E a \in TransferArgs : transfer(Storage, a[1], a[2], a[3]).res = "Ok"
    /\ \E a \in TransferArgs : transfer(Storage, a[1], a[2], a[3]).res # "Ok"
    /\ \E a \in SetPriceArgs : set_price(Storage, a[1], a[2], a[3]).res = "Ok"
    /\ \E a \in SetPriceArgs : set_price(Storage, a[1], a[2], a[3]).res # "Ok"
    /\ \E a \in BuyArgs :
           /\ buy_kitty(Storage, a[1], a[2], a[3]).res = "Ok"
           /\ a[3] > Kitties[a[2]].price.v
    /\ \E a \in BuyArgs : buy_kitty(Storage, a[1], a[2], a[3]).res # "Ok"

\* The effect of every call on CountForKitties: mint and create_kitty add
\* one when they succeed; transfer, set_price and buy_kitty, and every
\* failing call, leave it.
C15_CountEffect ==
    /\ \A owner \in Accounts, dna \in KittyIds :
           LET out == mint(Storage, owner, dna)
           IN  out.st.CountForKitties =
                   IF out.res = "Ok" THEN CountForKitties + 1 ELSE CountForKitties
    /\ \A origin \in Origins :
           LET out == create_kitty(Storage, origin, Context)
           IN  out.st.CountForKitties =
                   IF out.res = "Ok" THEN CountForKitties + 1 ELSE CountForKitties
    /\ \A a \in TransferArgs :
           transfer(Storage, a[1], a[2], a[3]).st.CountForKitties = CountForKitties
    /\ \A a \in SetPriceArgs :
           set_price(Storage, a[1], a[2], a[3]).st.CountForKitties = CountForKitties
    /\ \A a \in BuyArgs :
           buy_kitty(Storage, a[1], a[2], a[3]).st.CountForKitties = CountForKitties

\* A step keeps every kitty of the registry, under its fingerprint, and
\* does not lower CountForKitties.
C15_Permanent ==
    /\ DOMAIN Kitties \subseteq DOMAIN Kitties'
    /\ \A d \in DOMAIN Kitties : Kitties[d].dna = d /\ Kitties'[d].dna = d
    /\ CountForKitties' >= CountForKitties

\* C15: a kitty of the registry stays in the registry, with the same
\* fingerprint, in every later state; CountForKitties never decreases, is
\* one more after a successful mint, and is what it was after a transfer,
\* a set_price or a buy and after every failing call.
C15_PermanentAndMonotone == []C15_CountEffect /\ [][C15_Permanent]_vars

\* Two kitties were minted and the owner of one of them has sold a kitty;
\* a transfer and a set_price of it succeed and a mint of it fails.
C15_Witness ==
    /\ CountForKitties = genesis + 2
    /\ \E d \in DOMAIN Kitties \cap KittyIds :
           /\ balances[Kitties[d].owner] > InitBalance
           /\ \E a \in TransferArgs : a[3] = d /\ transfer(Storage, a[1], a[2], a[3]).res = "Ok"
           /\ \E a \in SetPriceArgs : a[2] = d /\ set_price(Storage, a[1], a[2], a[3]).res = "Ok"
           /\ mint(Storage, "alice", d).res = "DuplicateKitty"

\* C16: a successful mint(owner, dna) adds to the registry the record of
\* dna with that owner and no price and puts dna at the end of the owner's
\* entry, leaving every other record and entry (and the balances) as they
\* were; a mint of a fingerprint that is in the registry fails with
\* DuplicateKitty and leaves the record, its owner and price, as it was.
C16_MintEffect ==
    \A owner \in Accounts, dna \in KittyIds :
        LET out == mint(Storage, owner, dna)
        IN  /\ out.res = "Ok" =>
                /\ dna \notin DOMAIN Kitties
                /\ DOMAIN out.st.Kitties = DOMAIN Kitties \cup {dna}
                /\ out.st.Kitties[dna] = [dna |-> dna, owner |-> owner, price |-> None]
                /\ \A d \in DOMAIN Kitties : out.st.Kitties[d] = Kitties[d]
                /\ out.st.KittiesOwned =
                       [KittiesOwned EXCEPT ![owner] = Append(@, dna)]
                /\ out.st.balances = balances
            /\ dna \in DOMAIN Kitties =>
                /\ out = Err(Storage, "DuplicateKitty")
                /\ out.st.Kitties[dna] = Kitties[dna]

\* A listed kitty whose owner holds another: a mint of its fingerprint for
\* another account fails, and a mint of a fresh fingerprint for its owner
\* succeeds.
C16_Witness ==
    \E d \in DOMAIN Kitties \cap KittyIds, other \in Accounts :
        /\ Kitties[d].price.some
        /\ Kitties[d].owner # other
        /\ Len(KittiesOwned[Kitties[d].owner]) > 1
        /\ mint(Storage, other, d).res = "DuplicateKitty"
        /\ mint(Storage, Kitties[d].owner, gen_dna(Storage, Context)).res = "Ok"

\* The machine from a registry two creations short of a full counter.
SpecMax == InitMax /\ [][Next]_vars

\* C17: CountForKitties never exceeds the largest value of its type, and
\* when it is at that value a mint of a fingerprint that is not in the
\* registry, for any owner, and a create_kitty fail with TooManyKitties,
\* leaving CountForKitties (not wrapped to 0), the registry and the index
\* as they were.
C17_NoWrap ==
    /\ CountForKitties <= u32_MAX
    /\ CountForKitties >= genesis
    /\ CountForKitties = u32_MAX =>
           /\ \A owner \in Accounts :
                  LET out == mint(Storage, owner, gen_dna(Storage, Context))
                  IN  /\ out.res = "TooManyKitties"
                      /\ out.st.CountForKitties = u32_MAX
                      /\ Ledger(out.st) = Ledger(Storage)
           /\ \A owner \in Accounts :
                  create_kitty(Storage, SignedOrigin(owner), Context)
                      = Err(Storage, "TooManyKitties")

\* The counter is at the largest value of its type, the fingerprint of the
\* next creation is not in the registry, and the account that would mint
\* has room in its entry.
C17_Witness ==
    /\ CountForKitties = u32_MAX
    /\ gen_dna(Storage, Context) \notin DOMAIN Kitties
    /\ \E owner \in Accounts :
           /\ Len(KittiesOwned[owner]) < MaxOwned
           /\ create_kitty(Storage, SignedOrigin(owner), Context).res = "TooManyKitties"

\* C18: in every reachable state the fingerprint of every kitty of the
\* registry is found in the entry of its owner, so do_transfer's search of
\* the source's entry never fails: a transfer, and the transfer of a buy,
\* fails with NoKitty only for a fingerprint that is not in the registry.
C18_IndexCheckUnreachable ==
    /\ \A d \in DOMAIN Kitties : position(KittiesOwned[Kitties[d].owner], d) # 0
    /\ \A from \in Accounts, to \in Accounts, id \in KittyIds :
           /\ do_transfer(Storage, from, to, id).res = "NoKitty" => id \notin DOMAIN Kitties
           /\ transfer(Storage, SignedOrigin(from), to, id).res = "NoKitty" =>
                  id \notin DOMAIN Kitties
    /\ \A a \in BuyArgs :
           buy_kitty(Storage, a[1], a[2], a[3]).res = "NoKitty" => a[2] \notin DOMAIN Kitties

\* The second kitty minted stands first in its owner's entry of two
\* (transfers have reordered the index): its transfer reaches the search
\* of the entry and succeeds, and a transfer of a fingerprint that is not
\* in the registry fails with NoKitty.
C18_Witness ==
    \E d \in DOMAIN Kitties \cap KittyIds, to \in Accounts :
        /\ Len(KittiesOwned[Kitties[d].owner]) = 2
        /\ KittiesOwned[Kitties[d].owner][1] = d
        /\ d % (u32_MAX + 1) > genesis
        /\ do_transfer(Storage, Kitties[d].owner, to, d).res = "Ok"
        /\ do_transfer(Storage, Kitties[d].owner, to, gen_dna(Storage, Context)).res = "NoKitty"

\* (parent_hash, block_number, extrinsic_index) a create_kitty may run in:
\* those of the creations so far, and another block.
Contexts == {Context, <<0, 0, 0>>, <<1, 0, 1>>}

\* C19: with a hash that is injective on its payload, the fingerprint
\* gen_dna makes for the next creation is not in the registry, whatever
\* the block and the index of the call, and create_kitty never fails with
\* DuplicateKitty; this holds for creations that follow one another in the
\* same block at the same index.
C19_NoDuplicate ==
    \A ctx \in Contexts :
        /\ gen_dna(Storage, ctx) \notin DOMAIN Kitties
        /\ \A origin \in Origins :
               create_kitty(Storage, origin, ctx).res # "DuplicateKitty"

\* Two kitties have been created in the same block at the same index, by
\* the same account, and the counter leaves room for no other: the next
\* create_kitty there fails, but not for a duplicate.
C19_Witness ==
    \E a \in Accounts :
        /\ gen_dna([Storage EXCEPT !.CountForKitties = @ - 1], Context) \in Held(Storage, a)
        /\ gen_dna([Storage EXCEPT !.CountForKitties = @ - 2], Context) \in Held(Storage, a)
        /\ create_kitty(Storage, SignedOrigin(a), Context).res = "TooManyKitties"

\* No kitty of the registry has a price.
NothingListed == \A d \in DOMAIN Kitties : ~Kitties[d].price.some

\* Right after a successful transfer or buy of a kitty, every buy of it
\* fails with NotForSale; and a buy succeeds on a listed kitty only.
C20_NotForSaleAfterMove ==
    /\ \A a \in TransferArgs :
           LET out == transfer(Storage, a[1], a[2], a[3])
           IN  out.res = "Ok" =>
                   \A buyer \in Accounts, offer \in Offers :
                       buy_kitty(After(out), SignedOrigin(buyer), a[3], offer).res = "NotForSale"
    /\ \A a \in BuyArgs :
           LET out == buy_kitty(Storage, a[1], a[2], a[3])
           IN  out.res = "Ok" =>
                   /\ Kitties[a[2]].price.some
                   /\ \A buyer \in Accounts, offer \in Offers :
                          buy_kitty(After(out), SignedOrigin(buyer), a[2], offer).res = "NotForSale"

\* A step leaves a kitty with a price only if it had that price and that
\* owner before, or if the step is a successful set_price, with that
\* price, of the account that owned it before and owns it after.
C20_ListedByOwner ==
    \A d \in DOMAIN Kitties' :
        Kitties'[d].price.some =>
            /\ d \in DOMAIN Kitties
            /\ Kitties'[d].owner = Kitties[d].owner
            /\ \/ Kitties'[d].price = Kitties[d].price
               \/ LET out == set_price(Storage, SignedOrigin(Kitties[d].owner), d,
                                       Kitties'[d].price)
                  IN  out.res = "Ok" /\ Kitties' = out.st.Kitties

\* C20: a listing never survives a change of owner.  Nothing is listed at
\* first, and a step leaves a price on a kitty only if its owner is the
\* same and either the price was there or the step is that owner's
\* successful set_price: a present price was set by the current owner
\* since that owner acquired the kitty.  A buy succeeds on a listed kitty
\* only, and a buy right after a successful buy or transfer of the same
\* kitty fails with NotForSale.
C20_ListingDoesNotSurvive ==
    NothingListed /\ []C20_NotForSaleAfterMove /\ [][C20_ListedByOwner]_vars

\* A listed kitty is bought; the third account's buy right after fails,
\* and succeeds once the buyer has set a price of their own.
C20_Witness ==
    \E a \in BuyArgs, third \in Accounts :
        LET sold == buy_kitty(Storage, a[1], a[2], a[3])
            listed == set_price(After(sold), a[1], a[2], Some(MaxPrice))
        IN  /\ sold.res = "Ok"
            /\ third # a[1].who /\ third # Kitties[a[2]].owner
            /\ buy_kitty(After(sold), SignedOrigin(third), a[2], MaxPrice).res = "NotForSale"
            /\ listed.res = "Ok"
            /\ buy_kitty(After(listed), SignedOrigin(third), a[2], MaxPrice).res = "Ok"

====
